---- MODULE Spec2Model ----
(***************************************************************************)
(* Model of meal_plan.py: three Flask handlers (extract_items,             *)
(* generate_meal_plan, generate_recipe) around an OCR adapter and an LLM   *)
(* adapter, with the expiry-day computation and the response clean-up.     *)
(*                                                                         *)
(* Text (Python str) is a sequence of one-character strings, so that       *)
(* strip(), re.sub(), strptime(), json.loads() and ast.literal_eval() are  *)
(* computed character by character, as the libraries compute them. The     *)
(* backtick cannot be written in a TLA+ string: the character is the       *)
(* value Backtick.                                                         *)
(***************************************************************************)
EXTENDS Integers, Sequences, FiniteSets, TLC

(***************************************************************************)
(* Python str helpers                                                      *)
(***************************************************************************)

Backtick == "<backtick>"

\* characters str.strip() without arguments removes (the ASCII ones used here)
Whitespace == {" ", "\t", "\n", "\r"}

DigitChars == <<"0", "1", "2", "3", "4", "5", "6", "7", "8", "9">>

IsDigit(c) == \E i \in 1..10 : DigitChars[i] = c

DigitVal(c) == (CHOOSE i \in 1..10 : DigitChars[i] = c) - 1

\* s[i], or the empty string past the end of s
At(s, i) == IF i >= 1 /\ i <= Len(s) THEN s[i] ELSE ""

\* s[i:] of Python, with i counted from 1
From(s, i) == IF i > Len(s) THEN <<>> ELSE SubSeq(s, i, Len(s))

\* str.lower() on the letters of the fence keyword
LowerChar(c) ==
    CASE c = "J" -> "j"
      [] c = "S" -> "s"
      [] c = "O" -> "o"
      [] c = "N" -> "n"
      [] OTHER -> c

\* s.startswith(p) from position i, ignoring case (re.IGNORECASE)
MatchesAtCI(s, i, p) ==
    /\ i + Len(p) - 1 <= Len(s)
    /\ \A k \in 1..Len(p) : LowerChar(s[i + k - 1]) = p[k]

\* number of leading characters of s that are in cs
RECURSIVE LeadIn(_, _)
LeadIn(s, cs) ==
    IF s # <<>> /\ Head(s) \in cs THEN 1 + LeadIn(Tail(s), cs) ELSE 0

\* number of trailing characters of s that are in cs
RECURSIVE TrailIn(_, _)
TrailIn(s, cs) ==
    IF s # <<>> /\ s[Len(s)] \in cs
    THEN 1 + TrailIn(SubSeq(s, 1, Len(s) - 1), cs)
    ELSE 0

\* str.strip(chars): drop the leading and trailing characters that are in cs
StripChars(s, cs) ==
    LET a == LeadIn(s, cs)
    IN  IF a = Len(s) THEN <<>> ELSE SubSeq(s, a + 1, Len(s) - TrailIn(s, cs))

\* str.strip()
Strip(s) == StripChars(s, Whitespace)

(***************************************************************************)
(* datetime.strptime(date, "%Y-%m-%d").date() and date subtraction         *)
(***************************************************************************)

IsLeap(y) == y % 4 = 0 /\ (y % 100 # 0 \/ y % 400 = 0)

DaysInMonthTable == <<31, 28, 31, 30, 31, 30, 31, 31, 30, 31, 30, 31>>

DaysInMonth(y, m) ==
    IF m = 2 /\ IsLeap(y) THEN 29 ELSE DaysInMonthTable[m]

DaysBeforeYear(y) ==
    (y - 1) * 365 + ((y - 1) \div 4) - ((y - 1) \div 100) + ((y - 1) \div 400)

RECURSIVE DaysBeforeMonth(_, _)
DaysBeforeMonth(y, m) ==
    IF m = 1 THEN 0 ELSE DaysBeforeMonth(y, m - 1) + DaysInMonth(y, m - 1)

\* date.toordinal(): 1 for 0001-01-01
Ymd2Ord(y, m, d) == DaysBeforeYear(y) + DaysBeforeMonth(y, m) + d

\* the alternatives of %m, in the order the regular expression tries them:
\* 1[0-2] | 0[1-9] | [1-9]; each is <<value, length>>
MonthAlternatives(s, p) ==
    (IF At(s, p) = "1" /\ At(s, p + 1) \in {"0", "1", "2"}
     THEN << <<10 + DigitVal(s[p + 1]), 2>> >> ELSE <<>>)
    \o (IF At(s, p) = "0" /\ IsDigit(At(s, p + 1)) /\ At(s, p + 1) # "0"
        THEN << <<DigitVal(s[p + 1]), 2>> >> ELSE <<>>)
    \o (IF IsDigit(At(s, p)) /\ At(s, p) # "0"
        THEN << <<DigitVal(s[p]), 1>> >> ELSE <<>>)

\* the alternatives of %d: 3[0-1] | [1-2]\d | 0[1-9] | [1-9] | " "[1-9]
DayAlternatives(s, p) ==
    (IF At(s, p) = "3" /\ At(s, p + 1) \in {"0", "1"}
     THEN << <<30 + DigitVal(s[p + 1]), 2>> >> ELSE <<>>)
    \o (IF At(s, p) \in {"1", "2"} /\ IsDigit(At(s, p + 1))
        THEN << <<10 * DigitVal(s[p]) + DigitVal(s[p + 1]), 2>> >> ELSE <<>>)
    \o (IF At(s, p) = "0" /\ IsDigit(At(s, p + 1)) /\ At(s, p + 1) # "0"
        THEN << <<DigitVal(s[p + 1]), 2>> >> ELSE <<>>)
    \o (IF IsDigit(At(s, p)) /\ At(s, p) # "0"
        THEN << <<DigitVal(s[p]), 1>> >> ELSE <<>>)
    \o (IF At(s, p) = " " /\ IsDigit(At(s, p + 1)) /\ At(s, p + 1) # "0"
        THEN << <<DigitVal(s[p + 1]), 2>> >> ELSE <<>>)

NoDate == [ok |-> FALSE, y |-> 0, m |-> 0, d |-> 0]

\* the range checks once the regular expression has matched: "unconverted
\* data remains" when the match stops before the end (next is the position
\* after the match), then datetime's own checks (year >= 1, day within the
\* month)
CheckedDate(s, y, m, d, next) ==
    IF next # Len(s) + 1 \/ y < 1 \/ d > DaysInMonth(y, m)
    THEN NoDate
    ELSE [ok |-> TRUE, y |-> y, m |-> m, d |-> d]

\* the day is the first alternative of %d that matches at dp
MatchDay(s, y, m, dp, days) ==
    CheckedDate(s, y, m, days[1][1], dp + days[1][2])

\* the month is the first alternative of %m that is followed by "-" and a day
MatchMonth(s, y, ms) ==
    LET good == {i \in 1..Len(ms) :
                   /\ At(s, 6 + ms[i][2]) = "-"
                   /\ DayAlternatives(s, 7 + ms[i][2]) # <<>>}
    IN  IF good = {} THEN NoDate
        ELSE LET i == CHOOSE k \in good : \A j \in good : k <= j
             IN  MatchDay(s, y, ms[i][1], 7 + ms[i][2],
                          DayAlternatives(s, 7 + ms[i][2]))

\* datetime.strptime(s, "%Y-%m-%d"): the match of (\d\d\d\d)-(%m)-(%d) at the
\* start of s
StrptimeYmd(s) ==
    IF ~ (\A i \in 1..4 : IsDigit(At(s, i))) \/ At(s, 5) # "-"
    THEN NoDate
    ELSE MatchMonth(s,
                    1000 * DigitVal(s[1]) + 100 * DigitVal(s[2])
                    + 10 * DigitVal(s[3]) + DigitVal(s[4]),
                    MonthAlternatives(s, 6))

(***************************************************************************)
(* Parsed values (what json.loads and ast.literal_eval return)             *)
(*   kind  "str" | "int" | "name" | "list" | "dict" | "set"                *)
(*   text  the characters of a str, the digits of an int (with its sign),  *)
(*         the letters of true/false/null (True/False/None)                *)
(*   keys  the keys of a dict, in insertion order                          *)
(*   items the elements of a list or set, the values of a dict             *)
(***************************************************************************)

Mk(kind, text, keys, items) ==
    [kind |-> kind, text |-> text, keys |-> keys, items |-> items]

NoValue == Mk("none", <<>>, <<>>, <<>>)

ParseFail == [ok |-> FALSE, val |-> NoValue, next |-> 0]

ParseOk(v, n) == [ok |-> TRUE, val |-> v, next |-> n]

\* index of k in ks, or 0
IndexOf(ks, k) ==
    IF \E i \in 1..Len(ks) : ks[i] = k
    THEN CHOOSE i \in 1..Len(ks) : ks[i] = k /\ \A j \in 1..(i - 1) : ks[j] # k
    ELSE 0

\* d[k] = v on a Python dict: a repeated key keeps its place and takes the
\* new value
DictPut(keys, items, k, v) ==
    LET i == IndexOf(keys, k)
    IN  IF i = 0
        THEN [keys |-> Append(keys, k), items |-> Append(items, v)]
        ELSE [keys |-> keys, items |-> [items EXCEPT ![i] = v]]

(***************************************************************************)
(* json.loads (json.decoder, json.scanner): objects, arrays, strings with  *)
(* the escapes of a quote, a backslash, a slash, n, t and r, integers,     *)
(* true/false/null. Fractions, exponents, the other escapes and            *)
(* NaN/Infinity need characters that no text of the model holds.           *)
(***************************************************************************)

JsonWs == {" ", "\t", "\n", "\r"}

JSkip(s, p) == p + LeadIn(From(s, p), JsonWs)

JsonEscapes == {"\"", "\\", "/", "n", "t", "r"}

JsonUnescape(c) ==
    CASE c = "n" -> "\n"
      [] c = "t" -> "\t"
      [] c = "r" -> "\r"
      [] OTHER -> c

\* py_scanstring from the character after the opening quote; strict mode
\* rejects raw control characters
RECURSIVE JStrScan(_, _, _)
JStrScan(s, i, acc) ==
    IF i > Len(s) THEN ParseFail
    ELSE IF s[i] = "\"" THEN ParseOk(Mk("str", acc, <<>>, <<>>), i + 1)
    ELSE IF s[i] \in {"\n", "\t", "\r"} THEN ParseFail
    ELSE IF s[i] = "\\"
         THEN IF At(s, i + 1) \in JsonEscapes
              THEN JStrScan(s, i + 2, Append(acc, JsonUnescape(s[i + 1])))
              ELSE ParseFail
    ELSE JStrScan(s, i + 1, Append(acc, s[i]))

\* the integer part of NUMBER_RE: -?(0|[1-9]\d*)
JNumber(s, p) ==
    LET q == IF At(s, p) = "-" THEN p + 1 ELSE p
        n == IF At(s, q) = "0" THEN 1
             ELSE LeadIn(From(s, q), {DigitChars[i] : i \in 1..10})
    IN  IF n = 0 THEN ParseFail
        ELSE ParseOk(Mk("int", SubSeq(s, p, q + n - 1), <<>>, <<>>), q + n)

JLiteral(s, p, word) ==
    IF p + Len(word) - 1 <= Len(s) /\ SubSeq(s, p, p + Len(word) - 1) = word
    THEN ParseOk(Mk("name", word, <<>>, <<>>), p + Len(word))
    ELSE ParseFail

RECURSIVE JValue(_, _)
RECURSIVE JArray(_, _, _)
RECURSIVE JObject(_, _, _, _)

\* scan_once
JValue(s, p) ==
    LET c == At(s, p)
    IN  CASE c = "\"" -> JStrScan(s, p + 1, <<>>)
          [] c = "{" ->
               IF At(s, JSkip(s, p + 1)) = "}"
               THEN ParseOk(Mk("dict", <<>>, <<>>, <<>>), JSkip(s, p + 1) + 1)
               ELSE JObject(s, JSkip(s, p + 1), <<>>, <<>>)
          [] c = "[" ->
               IF At(s, JSkip(s, p + 1)) = "]"
               THEN ParseOk(Mk("list", <<>>, <<>>, <<>>), JSkip(s, p + 1) + 1)
               ELSE JArray(s, JSkip(s, p + 1), <<>>)
          [] c = "n" -> JLiteral(s, p, <<"n", "u", "l", "l">>)
          [] c = "t" -> JLiteral(s, p, <<"t", "r", "u", "e">>)
          [] c = "f" -> JLiteral(s, p, <<"f", "a", "l", "s", "e">>)
          [] OTHER -> JNumber(s, p)

\* JSONArray, at the start of an element
JArray(s, p, acc) ==
    LET v == JValue(s, p)
    IN  IF ~ v.ok THEN ParseFail
        ELSE LET q == JSkip(s, v.next)
             IN  IF At(s, q) = "]"
                 THEN ParseOk(Mk("list", <<>>, <<>>, Append(acc, v.val)), q + 1)
                 ELSE IF At(s, q) = ","
                 THEN JArray(s, JSkip(s, q + 1), Append(acc, v.val))
                 ELSE ParseFail

\* JSONObject, at the start of a key
JObject(s, p, keys, items) ==
    IF At(s, p) # "\"" THEN ParseFail
    ELSE
      LET k == JStrScan(s, p + 1, <<>>)
      IN  IF ~ k.ok \/ At(s, JSkip(s, k.next)) # ":" THEN ParseFail
          ELSE
            LET v == JValue(s, JSkip(s, JSkip(s, k.next) + 1))
            IN  IF ~ v.ok THEN ParseFail
                ELSE
                  LET d == DictPut(keys, items, k.val, v.val)
                      q == JSkip(s, v.next)
                  IN  IF At(s, q) = "}"
                      THEN ParseOk(Mk("dict", <<>>, d.keys, d.items), q + 1)
                      ELSE IF At(s, q) = ","
                      THEN JObject(s, JSkip(s, q + 1), d.keys, d.items)
                      ELSE ParseFail

\* json.loads(s): JSONDecoder.decode; ok = FALSE stands for JSONDecodeError
\* ("Expecting value", "Extra data", ...)
JsonLoads(s) ==
    LET v == JValue(s, JSkip(s, 1))
    IN  IF v.ok /\ JSkip(s, v.next) = Len(s) + 1 THEN v ELSE ParseFail

(***************************************************************************)
(* The clean-up of the model's reply: re.sub of the pattern                *)
(*   ^FENCEjson|FENCE$   (FENCE: three backticks, re.IGNORECASE)           *)
(* on result.strip(), then .strip() of backticks, newlines and spaces.     *)
(***************************************************************************)

FenceOpen == <<Backtick, Backtick, Backtick, "j", "s", "o", "n">>

FenceClose == <<Backtick, Backtick, Backtick>>

\* the substitution once the first alternative has consumed lead characters
\* at the start: the second alternative matches three backticks that end the
\* text or stand before its final newline, and only in what is left
ReSubFenceFrom(s, lead) ==
    LET rest == From(s, lead + 1)
        n    == Len(rest)
    IN  IF n >= 3 /\ SubSeq(rest, n - 2, n) = FenceClose
        THEN SubSeq(rest, 1, n - 3)
        ELSE IF n >= 4 /\ SubSeq(rest, n - 3, n - 1) = FenceClose /\ rest[n] = "\n"
        THEN SubSeq(rest, 1, n - 4) \o <<"\n">>
        ELSE rest

\* re.sub of the pattern on s: the first alternative can match only at the
\* start, in any letter case
ReSubFence(s) ==
    ReSubFenceFrom(s, IF MatchesAtCI(s, 1, FenceOpen) THEN Len(FenceOpen) ELSE 0)

\* variant: the pattern without re.IGNORECASE
CleanMarkdownCaseSensitive(result) ==
    StripChars(
      ReSubFenceFrom(Strip(result),
                     IF Len(Strip(result)) >= Len(FenceOpen)
                        /\ SubSeq(Strip(result), 1, Len(FenceOpen)) = FenceOpen
                     THEN Len(FenceOpen) ELSE 0),
      {Backtick, "\n", " "})

\* the "Clean markdown formatting" line of generate_meal_plan and
\* generate_recipe
CleanMarkdown(result) == StripChars(ReSubFence(Strip(result)), {Backtick, "\n", " "})

(***************************************************************************)
(* ast.literal_eval: lists, dicts, sets, strings in either quote with the  *)
(* escapes (backslash before a quote, a backslash or n), integers with a   *)
(* sign, True/False/None. Tuples,                                          *)
(* floats, complex numbers, bytes and string prefixes need characters or   *)
(* forms that no text of the model holds.                                  *)
(***************************************************************************)

PyWs == {" ", "\t", "\n", "\r"}

PySkip(s, p) == p + LeadIn(From(s, p), PyWs)

Letters == {"T", "r", "u", "e", "F", "a", "l", "s", "N", "o", "n", "H", "h",
            "i", "j", "t", "M", "k", "E", "g", "d", "b", "c", "x", "y"}

\* a string literal, from the character after the opening quote q
RECURSIVE PyStrScan(_, _, _, _)
PyStrScan(s, i, q, acc) ==
    IF i > Len(s) THEN ParseFail
    ELSE IF s[i] = q THEN ParseOk(Mk("str", acc, <<>>, <<>>), i + 1)
    ELSE IF s[i] \in {"\n", "\r"} THEN ParseFail
    ELSE IF s[i] = "\\"
         THEN IF At(s, i + 1) \in {"'", "\"", "\\"}
              THEN PyStrScan(s, i + 2, q, Append(acc, s[i + 1]))
              ELSE IF At(s, i + 1) = "n"
              THEN PyStrScan(s, i + 2, q, Append(acc, "\n"))
              ELSE ParseFail
    ELSE PyStrScan(s, i + 1, q, Append(acc, s[i]))

\* a decimal integer; "007" is a syntax error, "00" is not; a letter may not
\* follow
PyNumber(s, p, sign) ==
    LET n    == LeadIn(From(s, p), {DigitChars[i] : i \in 1..10})
        digs == SubSeq(s, p, p + n - 1)
    IN  IF n = 0 \/ At(s, p + n) \in Letters THEN ParseFail
        ELSE IF n > 1 /\ digs[1] = "0" /\ \E i \in 1..n : digs[i] # "0"
        THEN ParseFail
        ELSE ParseOk(Mk("int", sign \o digs, <<>>, <<>>), p + n)

\* a name: only True, False and None are literals
PyName(s, p) ==
    LET n == LeadIn(From(s, p), Letters \cup {DigitChars[i] : i \in 1..10})
        w == SubSeq(s, p, p + n - 1)
    IN  IF w \in {<<"T", "r", "u", "e">>, <<"F", "a", "l", "s", "e">>,
                  <<"N", "o", "n", "e">>}
        THEN ParseOk(Mk("name", w, <<>>, <<>>), p + n)
        ELSE ParseFail

RECURSIVE PyValue(_, _)
RECURSIVE PyElems(_, _, _, _, _)
RECURSIVE PyPairs(_, _, _, _)

PyValue(s, p) ==
    LET c == At(s, p)
    IN  CASE c \in {"'", "\""} -> PyStrScan(s, p + 1, c, <<>>)
          [] c = "[" -> PyElems(s, PySkip(s, p + 1), "]", "list", <<>>)
          [] c = "{" ->
               IF At(s, PySkip(s, p + 1)) = "}"
               THEN ParseOk(Mk("dict", <<>>, <<>>, <<>>), PySkip(s, p + 1) + 1)
               ELSE LET k == PyValue(s, PySkip(s, p + 1))
                    IN  IF k.ok /\ At(s, PySkip(s, k.next)) = ":"
                        THEN PyPairs(s, PySkip(s, p + 1), <<>>, <<>>)
                        ELSE PyElems(s, PySkip(s, p + 1), "}", "set", <<>>)
          [] c = "-" ->
               LET v == PyNumber(s, p + 1 + LeadIn(From(s, p + 1), {" ", "\t"}),
                                 <<"-">>)
               IN  v
          [] IsDigit(c) -> PyNumber(s, p, <<>>)
          [] OTHER -> PyName(s, p)

\* the elements of a list or set display up to the closing bracket; a
\* trailing comma is allowed
PyElems(s, p, close, kind, acc) ==
    IF At(s, p) = close
    THEN IF kind = "set" /\ acc = <<>> THEN ParseFail
         ELSE ParseOk(Mk(kind, <<>>, <<>>, acc), p + 1)
    ELSE
      LET v == PyValue(s, p)
      IN  IF ~ v.ok THEN ParseFail
          ELSE LET q == PySkip(s, v.next)
               IN  IF At(s, q) = ","
                   THEN PyElems(s, PySkip(s, q + 1), close, kind, Append(acc, v.val))
                   ELSE IF At(s, q) = close
                   THEN ParseOk(Mk(kind, <<>>, <<>>, Append(acc, v.val)), q + 1)
                   ELSE ParseFail

\* the key: value pairs of a dict display
PyPairs(s, p, keys, items) ==
    IF At(s, p) = "}"
    THEN ParseOk(Mk("dict", <<>>, keys, items), p + 1)
    ELSE
      LET k == PyValue(s, p)
      IN  IF ~ k.ok \/ At(s, PySkip(s, k.next)) # ":" THEN ParseFail
          ELSE
            LET v == PyValue(s, PySkip(s, PySkip(s, k.next) + 1))
            IN  IF ~ v.ok \/ k.val.kind \in {"list", "dict", "set"} THEN ParseFail
                ELSE
                  LET d == DictPut(keys, items, k.val, v.val)
                      q == PySkip(s, v.next)
                  IN  IF At(s, q) = ","
                      THEN PyPairs(s, PySkip(s, q + 1), d.keys, d.items)
                      ELSE IF At(s, q) = "}"
                      THEN ParseOk(Mk("dict", <<>>, d.keys, d.items), q + 1)
                      ELSE ParseFail

\* ast.literal_eval(s); ok = FALSE stands for the SyntaxError or ValueError it
\* raises
LiteralEval(s) ==
    LET v == PyValue(s, PySkip(s, 1))
    IN  IF v.ok /\ PySkip(s, v.next) = Len(s) + 1
           /\ (v.val.kind # "set" \/ \A i \in 1..Len(v.val.items) :
                   v.val.items[i].kind \notin {"list", "dict", "set"})
        THEN v ELSE ParseFail

(***************************************************************************)
(* Texts the adapters and the callers may supply                           *)
(***************************************************************************)

TxtJsonObject == <<"{", "\"", "a", "\"", ":", " ", "1", "}">>

TxtJsonArray == <<"[", "1", ",", " ", "\"", "b", "\"", "]">>

TxtJsonString == <<"\"", "a", "\"">>

TxtNotJson ==
    <<"n", "o", "t", " ", "j", "s", "o", "n", " ", "a", "t", " ", "a", "l", "l">>

TxtTruncated == <<"{", "\"", "a", "\"", ":", " ", "1">>

TxtItemList ==
    <<"[", "'", "M", "i", "l", "k", "'", ",", " ", "'", "E", "g", "g", "s", "'", "]">>

TxtEmptyList == <<"[", "]">>

TxtNumber == <<"4", "2">>

TxtDict == <<"{", "'", "a", "'", ":", " ", "1", "}">>

TxtString == <<"'", "M", "i", "l", "k", "'">>

TxtNested == <<"[", "[", "'", "M", "i", "l", "k", "'", "]", "]">>

TxtMixed == <<"[", "'", "M", "i", "l", "k", "'", ",", " ", "1", "]">>

TxtSet == <<"{", "'", "M", "i", "l", "k", "'", "}">>

TxtPreamble ==
    <<"H", "e", "r", "e", ":", " ", "[", "'", "M", "i", "l", "k", "'", "]">>

TxtIsoMarch1 == <<"2", "0", "2", "4", "-", "0", "3", "-", "0", "1">>

TxtIsoFeb27 == <<"2", "0", "2", "4", "-", "0", "2", "-", "2", "7">>

TxtShortFeb26 == <<"2", "0", "2", "4", "-", "2", "-", "2", "6">>

TxtSlashDate == <<"2", "0", "2", "4", "/", "0", "3", "/", "0", "1">>

TxtNoSuchDay == <<"2", "0", "2", "3", "-", "0", "2", "-", "2", "9">>

\* how a reply may wrap its payload j in a markdown fence
Wrappers == {"plain", "lower", "upper_ws", "mixed_tight"}

Wrap(w, j) ==
    CASE w = "lower" ->
           FenceOpen \o <<"\n">> \o j \o <<"\n">> \o FenceClose
      [] w = "upper_ws" ->
           <<" ", "\n">> \o FenceClose \o <<"J", "S", "O", "N", "\n">> \o j
           \o <<"\n">> \o FenceClose \o <<"\n", " ">>
      [] w = "mixed_tight" ->
           FenceClose \o <<"J", "s", "o", "n">> \o j \o FenceClose
      [] OTHER -> j

\* what an adapter call ends with: a returned text or a raised exception
Returned(text) == [raised |-> FALSE, text |-> text, msg |-> ""]

Raised(msg) == [raised |-> TRUE, text |-> <<>>, msg |-> msg]

JsonTexts == {TxtJsonObject, TxtJsonArray, TxtJsonString}

NonJsonTexts == {TxtNotJson, TxtTruncated}

\* replies of chain_meal and chain_recipe
ChainOutcomes ==
    {Raised("ResourceExhausted")}
    \cup {Returned(Wrap(w, j)) : w \in Wrappers, j \in JsonTexts \cup NonJsonTexts}

ListOfStrTexts == {TxtItemList, TxtEmptyList}

OtherLiteralTexts == {TxtNumber, TxtDict, TxtString, TxtNested, TxtMixed, TxtSet}

\* replies of chain_items
ItemsOutcomes ==
    {Raised("ResourceExhausted")}
    \cup {Returned(Wrap(w, j)) :
            w \in {"plain", "lower", "upper_ws"},
            j \in ListOfStrTexts \cup OtherLiteralTexts \cup {TxtPreamble}}

\* what Image.open and pytesseract.image_to_string end with
OcrOutcomes ==
    {[raised |-> TRUE, text |-> "", msg |-> "TesseractNotFoundError"],
     [raised |-> FALSE, text |-> "MILK 2.99 EGGS 1.50", msg |-> ""]}

\* request.files of a request to /extract-items
FileFields == {{}, {"image"}, {"photo"}}

\* a value of the expiry_dates object: a JSON string or null
Str(s) == [isstr |-> TRUE, text |-> s]

JsonNull == [isstr |-> FALSE, text |-> <<>>]

DateValues ==
    {Str(TxtIsoMarch1), Str(TxtIsoFeb27), Str(TxtShortFeb26),
     Str(TxtSlashDate), Str(TxtNoSuchDay), JsonNull}

\* the keys of expiry_dates, in the order the request lists them
ItemOrder == <<"Milk", "Eggs">>

Items == {ItemOrder[i] : i \in 1..Len(ItemOrder)}

EmptyMap == [k \in {} |-> 0]

ExpiryMaps == UNION {[D -> DateValues] : D \in SUBSET Items}

ProfileFields ==
    {"age", "weight", "height", "gender", "diet_type", "allergies",
     "health_conditions", "health_goal", "cuisine"}

\* the values a caller sends for the fields it sends
SampleValue ==
    [f \in ProfileFields \cup {"meal"} |->
       CASE f = "age" -> "30"
         [] f = "weight" -> "70"
         [] f = "height" -> "175"
         [] f = "gender" -> "female"
         [] f = "diet_type" -> "vegetarian"
         [] f = "allergies" -> "peanuts"
         [] f = "health_conditions" -> "none reported"
         [] f = "health_goal" -> "maintain"
         [] f = "cuisine" -> "indian"
         [] OTHER -> "paneer curry"]

BodyKeys(handler) ==
    IF handler = "generate_meal_plan"
    THEN ProfileFields \cup {"item_list", "expiry_dates"}
    ELSE {"meal", "item_list", "expiry_dates"}

\* request.json: a JSON object with some of the documented keys, or a JSON
\* array
JsonBody(is_object, present, item_list, expiry_dates) ==
    [is_object |-> is_object, present |-> present,
     item_list |-> item_list, expiry_dates |-> expiry_dates]

NoBody == JsonBody(FALSE, {}, <<>>, EmptyMap)

AbsentChoices(handler) ==
    {{}, {"item_list"}, {"expiry_dates"}, {"item_list", "expiry_dates"},
     BodyKeys(handler), BodyKeys(handler) \ {"item_list", "expiry_dates"}}

Bodies(handler) ==
    {NoBody}
    \cup {JsonBody(TRUE, BodyKeys(handler) \ a,
                   IF "item_list" \in a THEN <<>> ELSE il,
                   IF "expiry_dates" \in a THEN EmptyMap ELSE em) :
            a \in AbsentChoices(handler),
            il \in {<<>>, <<"Milk">>},
            em \in ExpiryMaps}

(***************************************************************************)
(* State                                                                   *)
(***************************************************************************)

VARIABLES
    clock,   \* the date datetime.today() returns, as an ordinal
    req      \* per request slot, the request and the locals of its handler

vars == <<clock, req>>

\* 2024-02-27, the day the service starts in the model
Today0 == Ymd2Ord(2024, 2, 27)

\* how many days the clock may advance
MaxTick == 2

NoProfile == [f \in ProfileFields |-> "None"]

NoPrompt ==
    [template |-> "", extracted_text |-> "", profile |-> NoProfile,
     meal |-> "None", item_list |-> <<>>, days_to_expiry |-> EmptyMap]

NoResponse ==
    [status |-> 0, json |-> FALSE, body |-> "", keys |-> {}, error |-> "",
     llm_output |-> <<>>, payload |-> NoValue]

NewRequest(handler, files, body, pc) ==
    [handler |-> handler, pc |-> pc, files |-> files, body |-> body,
     extracted_text |-> "", item_list |-> <<>>, today |-> 0,
     days_to_expiry |-> EmptyMap, prompt |-> NoPrompt, result |-> <<>>,
     ocr_calls |-> 0, llm_calls |-> 0, ocr_raised |-> FALSE,
     llm_raised |-> FALSE, date_error |-> FALSE, escaped |-> FALSE,
     response |-> NoResponse]

Idle == NewRequest("", {}, NoBody, "idle")

(***************************************************************************)
(* Responses                                                               *)
(***************************************************************************)

\* jsonify({"error": msg}), status
ErrorResponse(msg, status) ==
    [status |-> status, json |-> TRUE, body |-> "dict", keys |-> {"error"},
     error |-> msg, llm_output |-> <<>>, payload |-> NoValue]

\* jsonify({"error": "No image provided"}), 400
NoImageResponse == ErrorResponse("No image provided", 400)

\* variant: the reply is attached after a strip()
ParseFailureResponseStripped(result) ==
    [status |-> 500, json |-> TRUE, body |-> "dict",
     keys |-> {"error", "llm_output"}, error |-> "Failed to parse LLM response",
     llm_output |-> Strip(result), payload |-> NoValue]

\* jsonify({"error": "Failed to parse LLM response", "llm_output": result}), 500
ParseFailureResponse(result) ==
    [status |-> 500, json |-> TRUE, body |-> "dict",
     keys |-> {"error", "llm_output"}, error |-> "Failed to parse LLM response",
     llm_output |-> result, payload |-> NoValue]

\* jsonify({"grocery_items": grocery_list}), status 200 by default
GroceryItemsResponse(grocery_list) ==
    [status |-> 200, json |-> TRUE, body |-> "dict", keys |-> {"grocery_items"},
     error |-> "", llm_output |-> <<>>, payload |-> grocery_list]

\* jsonify(meal_plan), 200: the body is the parsed value itself
ValueResponse(v) ==
    [status |-> 200, json |-> TRUE, body |-> "value", keys |-> {},
     error |-> "", llm_output |-> <<>>, payload |-> v]

\* an exception that leaves the view function: Flask answers 500 with its
\* own HTML page (the debugger's page under app.run(debug=True))
UnhandledResponse ==
    [status |-> 500, json |-> FALSE, body |-> "html", keys |-> {},
     error |-> "", llm_output |-> <<>>, payload |-> NoValue]

\* whether jsonify can serialise v: a set is not JSON serialisable
RECURSIVE JsonSerializable(_)
JsonSerializable(v) ==
    /\ v.kind # "set"
    /\ \A i \in 1..Len(v.items) : JsonSerializable(v.items[i])

(***************************************************************************)
(* calculate_days_to_expiry                                                *)
(***************************************************************************)

\* datetime.strptime(date, "%Y-%m-%d"): TypeError for a value that is no str
ParseDate(v) == IF v.isstr THEN StrptimeYmd(v.text) ELSE NoDate

\* the first key, in the order of the request, whose date does not parse
FirstBadKey(expiry_dates) ==
    LET bad == {i \in 1..Len(ItemOrder) :
                  /\ ItemOrder[i] \in DOMAIN expiry_dates
                  /\ ~ ParseDate(expiry_dates[ItemOrder[i]]).ok}
    IN  ItemOrder[CHOOSE i \in bad : \A j \in bad : i <= j]

\* the dict comprehension over expiry_dates.items(): the first date that
\* strptime rejects raises and ends the whole computation; otherwise every
\* key maps to (date - today).days
DaysFrom(expiry_dates, today) ==
    IF \E k \in DOMAIN expiry_dates : ~ ParseDate(expiry_dates[k]).ok
    THEN [raised |-> TRUE,
          error  |-> IF expiry_dates[FirstBadKey(expiry_dates)].isstr
                     THEN "ValueError" ELSE "TypeError",
          days   |-> EmptyMap]
    ELSE [raised |-> FALSE, error |-> "",
          days   |-> [k \in DOMAIN expiry_dates |->
                        Ymd2Ord(ParseDate(expiry_dates[k]).y,
                                ParseDate(expiry_dates[k]).m,
                                ParseDate(expiry_dates[k]).d) - today]]

\* variant: an entry whose date does not parse is left out instead of raising
calculate_days_to_expiry_skipping(expiry_dates) ==
    DaysFrom([k \in {x \in DOMAIN expiry_dates : ParseDate(expiry_dates[x]).ok}
                |-> expiry_dates[k]], clock)

\* variant: today is taken once, when the module is imported
calculate_days_to_expiry_at_import(expiry_dates) == DaysFrom(expiry_dates, Today0)

\* variant: today - date instead of date - today
calculate_days_to_expiry_reversed(expiry_dates) ==
    [raised |-> DaysFrom(expiry_dates, clock).raised,
     error  |-> DaysFrom(expiry_dates, clock).error,
     days   |-> [k \in DOMAIN DaysFrom(expiry_dates, clock).days |->
                   0 - DaysFrom(expiry_dates, clock).days[k]]]

\* today = datetime.today().date(), then the comprehension
calculate_days_to_expiry(expiry_dates) == DaysFrom(expiry_dates, clock)

(***************************************************************************)
(* The handlers, in the steps between which a request waits on an adapter  *)
(***************************************************************************)

\* variant: any uploaded file is taken for the image
HasImageAnyFile(files) == files # {}

\* 'image' in request.files
HasImage(files) == "image" \in files

\* data.get('item_list', [])
ItemListOf(body) ==
    IF "item_list" \in body.present THEN body.item_list ELSE <<>>

\* data.get('expiry_dates', {})
ExpiryDatesOf(body) ==
    IF "expiry_dates" \in body.present THEN body.expiry_dates ELSE EmptyMap

\* data.get(f): None when the key is absent
FieldOf(body, f) == IF f \in body.present THEN SampleValue[f] ELSE "None"

\* the locals of the try block once calculate_days_to_expiry has ended as c
PreparedWith(body, c) ==
    [raised |-> c.raised, error |-> c.error, date_error |-> c.raised,
     item_list |-> IF c.raised THEN <<>> ELSE ItemListOf(body),
     days |-> c.days]

\* variant: data['item_list'] and data['expiry_dates'] instead of data.get
PrepareInputsSubscript(body) ==
    IF ~ body.is_object
    THEN [raised |-> TRUE, error |-> "AttributeError", date_error |-> FALSE,
          item_list |-> <<>>, days |-> EmptyMap]
    ELSE IF ~ ({"item_list", "expiry_dates"} \subseteq body.present)
    THEN [raised |-> TRUE, error |-> "KeyError", date_error |-> FALSE,
          item_list |-> <<>>, days |-> EmptyMap]
    ELSE PreparedWith(body, calculate_days_to_expiry(ExpiryDatesOf(body)))

\* the part of the try block before the chain is invoked: the data.get
\* calls (AttributeError when the body is no object) and the expiry days
PrepareInputs(body) ==
    IF ~ body.is_object
    THEN [raised |-> TRUE, error |-> "AttributeError", date_error |-> FALSE,
          item_list |-> <<>>, days |-> EmptyMap]
    ELSE PreparedWith(body, calculate_days_to_expiry(ExpiryDatesOf(body)))

\* prompt_template_items rendered by chain_items.invoke
ItemsPrompt(r) ==
    [NoPrompt EXCEPT !.template = "prompt_template_items",
                     !.extracted_text = r.extracted_text]

\* prompt_template_meal rendered by chain_meal.invoke
MealPrompt(r) ==
    [NoPrompt EXCEPT !.template = "prompt_template_meal",
                     !.profile = [f \in ProfileFields |-> FieldOf(r.body, f)],
                     !.item_list = r.item_list,
                     !.days_to_expiry = r.days_to_expiry]

\* prompt_template_recipe rendered by chain_recipe.invoke
RecipePrompt(r) ==
    [NoPrompt EXCEPT !.template = "prompt_template_recipe",
                     !.meal = FieldOf(r.body, "meal"),
                     !.item_list = r.item_list,
                     !.days_to_expiry = r.days_to_expiry]

\* extract_items after chain_items.invoke returned: ast.literal_eval in its
\* try block, then jsonify outside it
ExtractItemsFinish(result) ==
    LET g == LiteralEval(result)
    IN  IF ~ g.ok
        THEN [response |-> ParseFailureResponse(result), escaped |-> FALSE]
        ELSE IF ~ JsonSerializable(g.val)
        THEN [response |-> UnhandledResponse, escaped |-> TRUE]
        ELSE [response |-> GroceryItemsResponse(g.val), escaped |-> FALSE]

\* generate_meal_plan and generate_recipe after the chain returned: the
\* clean-up, json.loads, and the except clause that answers 400
GenerateFinish(result) ==
    LET v == JsonLoads(CleanMarkdown(result))
    IN  IF v.ok THEN ValueResponse(v.val)
        ELSE ErrorResponse("JSONDecodeError", 400)

Finished(r, response, escaped) ==
    [r EXCEPT !.pc = "done", !.response = response, !.escaped = escaped]

\* a request to /extract-items arrives: the check for the image field
extract_items_receive(s, files_in) ==
    /\ req[s].pc = "idle"
    /\ \E files \in files_in :
         LET r == NewRequest("extract_items", files, NoBody, "ocr")
         IN  req' = [req EXCEPT ![s] =
                       IF HasImage(files) THEN r
                       ELSE Finished(r, NoImageResponse, FALSE)]
    /\ UNCHANGED clock

\* Image.open and pytesseract.image_to_string, outside any try block
extract_items_ocr(s, outcomes) ==
    /\ req[s].pc = "ocr"
    /\ \E o \in outcomes :
         LET r == [req[s] EXCEPT !.ocr_calls = @ + 1, !.ocr_raised = o.raised]
         IN  req' = [req EXCEPT ![s] =
                       IF o.raised THEN Finished(r, UnhandledResponse, TRUE)
                       ELSE [r EXCEPT !.pc = "llm", !.extracted_text = o.text]]
    /\ UNCHANGED clock

\* chain_items.invoke, outside any try block, and the rest of the handler
extract_items_invoke(s, outcomes) ==
    /\ req[s].pc = "llm"
    /\ req[s].handler = "extract_items"
    /\ \E o \in outcomes :
         LET r == [req[s] EXCEPT !.llm_calls = @ + 1, !.llm_raised = o.raised,
                                 !.prompt = ItemsPrompt(req[s]),
                                 !.result = o.text]
             f == ExtractItemsFinish(o.text)
         IN  req' = [req EXCEPT ![s] =
                       IF o.raised THEN Finished(r, UnhandledResponse, TRUE)
                       ELSE Finished(r, f.response, f.escaped)]
    /\ UNCHANGED clock

\* data = request.json
GenerateReceive(s, handler, bodies) ==
    /\ req[s].pc = "idle"
    /\ \E body \in bodies :
         req' = [req EXCEPT ![s] = NewRequest(handler, {}, body, "try")]
    /\ UNCHANGED clock

\* the request after the first part of the try block ended as p on day now
Prepared(r, p, now) ==
    IF p.raised
    THEN Finished([r EXCEPT !.today = IF r.body.is_object THEN now ELSE 0,
                            !.date_error = p.date_error],
                  ErrorResponse(p.error, 400), FALSE)
    ELSE [r EXCEPT !.pc = "llm", !.today = now, !.item_list = p.item_list,
                   !.days_to_expiry = p.days]

\* the try block up to the chain's invocation
GeneratePrepare(s, handler) ==
    /\ req[s].pc = "try"
    /\ req[s].handler = handler
    /\ req' = [req EXCEPT ![s] = Prepared(req[s], PrepareInputs(req[s].body), clock)]
    /\ UNCHANGED clock

\* chain.invoke inside the try block, and the rest of the handler
GenerateInvoke(s, handler, prompt, outcomes) ==
    /\ req[s].pc = "llm"
    /\ req[s].handler = handler
    /\ \E o \in outcomes :
         LET r == [req[s] EXCEPT !.llm_calls = @ + 1, !.llm_raised = o.raised,
                                 !.prompt = prompt, !.result = o.text]
         IN  req' = [req EXCEPT ![s] =
                       IF o.raised THEN Finished(r, ErrorResponse(o.msg, 400), FALSE)
                       ELSE Finished(r, GenerateFinish(o.text), FALSE)]
    /\ UNCHANGED clock

generate_meal_plan_receive(s, bodies) ==
    GenerateReceive(s, "generate_meal_plan", bodies)

generate_meal_plan_prepare(s) == GeneratePrepare(s, "generate_meal_plan")

generate_meal_plan_invoke(s, outcomes) ==
    GenerateInvoke(s, "generate_meal_plan", MealPrompt(req[s]), outcomes)

generate_recipe_receive(s, bodies) ==
    GenerateReceive(s, "generate_recipe", bodies)

generate_recipe_prepare(s) == GeneratePrepare(s, "generate_recipe")

generate_recipe_invoke(s, outcomes) ==
    GenerateInvoke(s, "generate_recipe", RecipePrompt(req[s]), outcomes)

\* the response has been sent: the locals of the view function are gone and
\* the server takes the next request
request_complete(s) ==
    /\ req[s].pc = "done"
    /\ req' = [req EXCEPT ![s] = Idle]
    /\ UNCHANGED clock

\* midnight passes
Tick ==
    /\ clock < Today0 + MaxTick
    /\ clock' = clock + 1
    /\ UNCHANGED req

(***************************************************************************)
(* Spec: one request at a time, every input of the sets above              *)
(***************************************************************************)

Init ==
    /\ clock = Today0
    /\ req = [s \in {1} |-> Idle]

Next ==
    \/ Tick
    \/ extract_items_receive(1, FileFields)
    \/ extract_items_ocr(1, OcrOutcomes)
    \/ extract_items_invoke(1, ItemsOutcomes)
    \/ generate_meal_plan_receive(1, Bodies("generate_meal_plan"))
    \/ generate_meal_plan_prepare(1)
    \/ generate_meal_plan_invoke(1, ChainOutcomes)
    \/ generate_recipe_receive(1, Bodies("generate_recipe"))
    \/ generate_recipe_prepare(1)
    \/ generate_recipe_invoke(1, ChainOutcomes)
    \/ request_complete(1)

Spec == Init /\ [][Next]_vars

(***************************************************************************)
(* SpecConc: two requests in flight at once (the threaded server), fewer   *)
(* inputs                                                                  *)
(***************************************************************************)

ConcSlots == {1, 2}

ConcFileFields == {{}, {"image"}}

ConcItemsOutcomes ==
    {Raised("ResourceExhausted"), Returned(TxtItemList), Returned(TxtNumber)}

ConcChainOutcomes ==
    {Raised("ResourceExhausted"), Returned(TxtJsonObject), Returned(TxtNotJson)}

ConcBodies(handler) ==
    {JsonBody(TRUE, BodyKeys(handler), <<"Milk">>, em) :
       em \in {EmptyMap} \cup [{"Milk"} -> {Str(TxtIsoMarch1), Str(TxtSlashDate)}]}

InitConc ==
    /\ clock = Today0
    /\ req = [s \in ConcSlots |-> Idle]

NextConc ==
    \/ Tick
    \/ \E s \in ConcSlots :
         \/ extract_items_receive(s, ConcFileFields)
         \/ extract_items_ocr(s, OcrOutcomes)
         \/ extract_items_invoke(s, ConcItemsOutcomes)
         \/ generate_meal_plan_receive(s, ConcBodies("generate_meal_plan"))
         \/ generate_meal_plan_prepare(s)
         \/ generate_meal_plan_invoke(s, ConcChainOutcomes)
         \/ generate_recipe_receive(s, ConcBodies("generate_recipe"))
         \/ generate_recipe_prepare(s)
         \/ generate_recipe_invoke(s, ConcChainOutcomes)
         \/ request_complete(s)

SpecConc == InitConc /\ [][NextConc]_vars

(***************************************************************************)
(* Properties                                                              *)
(***************************************************************************)

GenerateHandlers == {"generate_meal_plan", "generate_recipe"}

Slots == DOMAIN req

\* the chain was invoked and returned a text
ChainReturned(r) == r.pc = "done" /\ r.llm_calls = 1 /\ ~ r.llm_raised

\* calculate_days_to_expiry returned (the request is at or past the chain)
DaysComputed(r) ==
    /\ r.handler \in GenerateHandlers
    /\ r.pc = "llm" \/ (r.pc = "done" /\ r.llm_calls = 1)

\* ---- the calendar, stated without the ordinal arithmetic of the model ----

CalendarMonthLength(y, m) ==
    IF m \in {4, 6, 9, 11} THEN 30
    ELSE IF m # 2 THEN 31
    ELSE IF (y % 4 = 0 /\ y % 100 # 0) \/ y % 400 = 0 THEN 29 ELSE 28

Numeral(n) ==
    IF n < 10 THEN <<DigitChars[n + 1]>>
    ELSE <<DigitChars[(n \div 10) + 1], DigitChars[(n % 10) + 1]>>

\* the ways %m and %d let a month or a day be written
MonthForms(m) == {Numeral(m)} \cup (IF m < 10 THEN {<<"0">> \o Numeral(m)} ELSE {})

DayForms(d) ==
    {Numeral(d)}
    \cup (IF d < 10 THEN {<<"0">> \o Numeral(d), <<" ">> \o Numeral(d)} ELSE {})

\* the dates <<y, m, d>> that the text t writes as year-month-day: a year of
\* four digits, a month and a day of one or two digits, a day the month has
CivilDates(t) ==
    IF Len(t) < 8 \/ t[5] # "-" \/ \E i \in 1..4 : ~ IsDigit(t[i]) THEN {}
    ELSE
      LET y == 1000 * DigitVal(t[1]) + 100 * DigitVal(t[2])
               + 10 * DigitVal(t[3]) + DigitVal(t[4])
      IN  IF y < 1 THEN {}
          ELSE UNION {
                 UNION {
                   {<<y, m, d>> : d \in {x \in 1..CalendarMonthLength(y, m) :
                        \E df \in DayForms(x) :
                           From(t, 6) = mf \o <<"-">> \o df}} :
                   mf \in {f \in MonthForms(m) :
                             Len(t) >= 6 + Len(f)
                             /\ SubSeq(t, 6, 6 + Len(f)) = f \o <<"-">>}} :
                 m \in 1..12}

\* a value of expiry_dates that is a year-month-day string of a real date
AcceptedDate(v) == v.isstr /\ CivilDates(v.text) # {}

\* YYYY-MM-DD read strictly: four, two and two digits
IsoShaped(v) ==
    /\ v.isstr
    /\ Len(v.text) = 10
    /\ \A i \in {1, 2, 3, 4, 6, 7, 9, 10} : IsDigit(v.text[i])
    /\ v.text[5] = "-" /\ v.text[8] = "-"

NextCivil(c) ==
    IF c[3] < CalendarMonthLength(c[1], c[2]) THEN <<c[1], c[2], c[3] + 1>>
    ELSE IF c[2] < 12 THEN <<c[1], c[2] + 1, 1>>
    ELSE <<c[1] + 1, 1, 1>>

\* how far the day-by-day count looks
MaxSpan == 8

\* the number of days to step from a to reach b (a not after b)
RECURSIVE StepsTo(_, _, _)
StepsTo(a, b, budget) ==
    IF a = b THEN 0
    ELSE IF budget = 0 THEN 0 - 1000
    ELSE 1 + StepsTo(NextCivil(a), b, budget - 1)

RECURSIVE CivilAfter(_, _)
CivilAfter(c, n) == IF n = 0 THEN c ELSE CivilAfter(NextCivil(c), n - 1)

CivilBefore(a, b) ==
    \/ a[1] < b[1]
    \/ a[1] = b[1] /\ a[2] < b[2]
    \/ a[1] = b[1] /\ a[2] = b[2] /\ a[3] < b[3]

\* the calendar date of the ordinal today, counted from 2024-02-27
CivilOfOrdinal(today) == CivilAfter(<<2024, 2, 27>>, today - Today0)

\* the signed number of days from the day today to the date the text writes
ExpectedDays(today, text) ==
    LET a == CivilOfOrdinal(today)
        b == CHOOSE c \in CivilDates(text) : TRUE
    IN  IF CivilBefore(b, a) THEN 0 - StepsTo(b, a, MaxSpan)
        ELSE StepsTo(a, b, MaxSpan)

\* ---- C1 ----
\* C1: whenever the OCR adapter or the LLM adapter raised during a request,
\* the handler caught it: the request ended with a JSON error body and HTTP
\* status 400 or 500, and no exception left the handler.
C1_AdapterExceptionCaught ==
    \A s \in Slots :
       (req[s].pc = "done" /\ (req[s].ocr_raised \/ req[s].llm_raised))
       => /\ ~ req[s].escaped
          /\ req[s].response.json
          /\ "error" \in req[s].response.keys
          /\ req[s].response.status \in {400, 500}

\* ---- C2 ----
\* C2: a request to /extract-items without a multipart field named image is
\* answered 400 {"error": "No image provided"} and neither the OCR adapter nor
\* the LLM adapter is called for it.
C2_NoImageRejected ==
    \A s \in Slots :
       (req[s].handler = "extract_items" /\ "image" \notin req[s].files)
       => /\ req[s].pc = "done"
          /\ req[s].response.status = 400
          /\ req[s].response.json
          /\ req[s].response.keys = {"error"}
          /\ req[s].response.error = "No image provided"
          /\ req[s].ocr_calls = 0
          /\ req[s].llm_calls = 0

C2_Witness ==
    \E s \in Slots :
       /\ req[s].handler = "extract_items"
       /\ req[s].files = {"photo"}
       /\ req[s].pc = "done"
       /\ req[s].response.status = 400

\* ---- C3 ----
\* C3: when the reply of the model cannot be parsed, /extract-items answers
\* 500 with error "Failed to parse LLM response" and llm_output equal to the
\* unmodified reply, /generate-meal-plan and /generate-recipe answer 400 with
\* a body whose only key is error and without the reply; only extract-items
\* ever returns the reply.
C3_ParseFailureResponses ==
    \A s \in Slots :
       /\ (ChainReturned(req[s]) /\ req[s].handler = "extract_items"
             /\ ~ LiteralEval(req[s].result).ok)
          => /\ req[s].response.status = 500
             /\ req[s].response.json
             /\ req[s].response.keys = {"error", "llm_output"}
             /\ req[s].response.error = "Failed to parse LLM response"
             /\ req[s].response.llm_output = req[s].result
       /\ (ChainReturned(req[s]) /\ req[s].handler \in GenerateHandlers
             /\ ~ JsonLoads(CleanMarkdown(req[s].result)).ok)
          => /\ req[s].response.status = 400
             /\ req[s].response.json
             /\ req[s].response.keys = {"error"}
             /\ req[s].response.llm_output = <<>>
       /\ "llm_output" \in req[s].response.keys
          => req[s].handler = "extract_items"

C3_Witness ==
    \E s \in Slots :
       /\ req[s].handler = "extract_items"
       /\ ChainReturned(req[s])
       /\ req[s].result = Wrap("upper_ws", TxtItemList)
       /\ req[s].response.status = 500
       /\ req[s].response.llm_output = req[s].result

\* ---- C4 ----
\* the outcome C4 speaks of: the request failed as a whole with 400
\* {"error": message}, no prompt was rendered and the chain was never invoked
RejectedBeforePrompt(r) ==
    /\ r.pc = "done"
    /\ r.response.status = 400
    /\ r.response.json
    /\ r.response.keys = {"error"}
    /\ r.prompt = NoPrompt
    /\ r.llm_calls = 0

PastTry(r) ==
    r.handler \in GenerateHandlers /\ r.body.is_object /\ r.pc \in {"llm", "done"}

\* C4 as stated: if any value of expiry_dates is not a YYYY-MM-DD date string
\* (four-digit year, two-digit month, two-digit day), the request fails as a
\* whole with 400, no prompt is rendered and the LLM adapter is not invoked.
C4_Original ==
    \A s \in Slots :
       (PastTry(req[s])
          /\ \E k \in DOMAIN ExpiryDatesOf(req[s].body) :
                ~ IsoShaped(ExpiryDatesOf(req[s].body)[k]))
       => RejectedBeforePrompt(req[s])

\* C4 as amended: if any value of expiry_dates is not a string that writes a
\* real date as year-month-day (four-digit year; month and day of one or two
\* digits), the request fails as a whole with 400, the entry is not skipped,
\* no prompt is rendered and the LLM adapter is not invoked.
C4_MalformedDateRejected ==
    \A s \in Slots :
       (PastTry(req[s])
          /\ \E k \in DOMAIN ExpiryDatesOf(req[s].body) :
                ~ AcceptedDate(ExpiryDatesOf(req[s].body)[k]))
       => RejectedBeforePrompt(req[s])

C4_Witness ==
    \E s \in Slots :
       /\ PastTry(req[s])
       /\ DOMAIN ExpiryDatesOf(req[s].body) = {"Milk", "Eggs"}
       /\ ExpiryDatesOf(req[s].body)["Milk"] = Str(TxtIsoMarch1)
       /\ ExpiryDatesOf(req[s].body)["Eggs"] = Str(TxtSlashDate)
       /\ RejectedBeforePrompt(req[s])

\* ---- C5 ----
\* C5: whenever /extract-items answers 200, the body is {"grocery_items": L}
\* with L a list whose every element is a string.
C5_SuccessIsListOfStrings ==
    \A s \in Slots :
       (req[s].handler = "extract_items" /\ req[s].pc = "done"
          /\ req[s].response.status = 200)
       => /\ req[s].response.keys = {"grocery_items"}
          /\ req[s].response.payload.kind = "list"
          /\ \A i \in 1..Len(req[s].response.payload.items) :
                req[s].response.payload.items[i].kind = "str"

\* ---- C6 ----
\* C6: when the reply to /extract-items is a valid list-of-strings literal
\* inside a markdown fence, the fence is stripped before parsing and the
\* handler answers 200 with that list, as for the unfenced literal.
C6_FencedItemListAccepted ==
    \A s \in Slots :
       (req[s].handler = "extract_items" /\ ChainReturned(req[s]))
       => \A w \in Wrappers \ {"plain"} : \A j \in ListOfStrTexts :
             req[s].result = Wrap(w, j)
             => /\ req[s].response.status = 200
                /\ req[s].response.keys = {"grocery_items"}
                /\ req[s].response.payload = LiteralEval(j).val

\* ---- C7 ----
\* C7: for /generate-meal-plan and /generate-recipe with a JSON-object body,
\* whatever documented fields are absent: a missing item_list is the empty
\* list, a missing expiry_dates the empty map, an empty list is not rejected,
\* and the request renders its prompt, invokes the chain exactly once and,
\* given a parseable reply, answers 200 with the parsed value.
C7_AbsentFieldsDefaulted ==
    \A s \in Slots :
       (/\ req[s].handler \in GenerateHandlers
        /\ req[s].body.is_object
        /\ req[s].pc \in {"llm", "done"}
        /\ \A k \in DOMAIN ExpiryDatesOf(req[s].body) :
              AcceptedDate(ExpiryDatesOf(req[s].body)[k]))
       => /\ "item_list" \notin req[s].body.present => req[s].item_list = <<>>
          /\ "item_list" \in req[s].body.present
               => req[s].item_list = req[s].body.item_list
          /\ "expiry_dates" \notin req[s].body.present
               => req[s].days_to_expiry = EmptyMap
          /\ req[s].pc = "done"
               => /\ req[s].llm_calls = 1
                  /\ req[s].prompt.template =
                       (IF req[s].handler = "generate_meal_plan"
                        THEN "prompt_template_meal" ELSE "prompt_template_recipe")
                  /\ req[s].prompt.item_list = req[s].item_list
                  /\ \A f \in ProfileFields :
                        (req[s].handler = "generate_meal_plan"
                           /\ f \notin req[s].body.present)
                        => req[s].prompt.profile[f] = "None"
                  /\ (~ req[s].llm_raised /\ req[s].result \in JsonTexts)
                     => /\ req[s].response.status = 200
                        /\ req[s].response.body = "value"
                        /\ req[s].response.payload = JsonLoads(req[s].result).val

C7_Witness ==
    \E s \in Slots :
       /\ req[s].handler = "generate_recipe"
       /\ req[s].body.is_object
       /\ req[s].body.present = {"meal"}
       /\ req[s].pc = "done"
       /\ req[s].prompt.template = "prompt_template_recipe"
       /\ req[s].prompt.item_list = <<>>
       /\ req[s].response.status = 200

\* ---- C8 ----
\* C8: for every valid JSON text j, a reply that is j itself, or j inside a
\* json fence (keyword in any letter case, with or without whitespace around
\* it), is answered with parse(j); a reply that is no JSON after the
\* stripping is answered with an error body, not with an unhandled exception.
C8_NormalizeParses ==
    \A s \in Slots :
       (req[s].handler \in GenerateHandlers /\ ChainReturned(req[s]))
       => /\ \A w \in Wrappers : \A j \in JsonTexts :
                req[s].result = Wrap(w, j)
                => /\ JsonLoads(j).ok
                   /\ req[s].response.status = 200
                   /\ req[s].response.body = "value"
                   /\ req[s].response.payload = JsonLoads(j).val
          /\ req[s].result \in NonJsonTexts
                => /\ req[s].response.status = 400
                   /\ req[s].response.json
                   /\ req[s].response.keys = {"error"}
                   /\ ~ req[s].escaped

C8_Witness ==
    \E s \in Slots :
       /\ req[s].handler = "generate_meal_plan"
       /\ ChainReturned(req[s])
       /\ req[s].result = Wrap("upper_ws", TxtJsonObject)
       /\ req[s].response.status = 200
       /\ req[s].response.payload.kind = "dict"

\* ---- C9 ----
\* C9: for every map of item names to valid date strings, the expiry days
\* have exactly the keys of the map and each value is the signed number of
\* days from today to the date (0 today, positive ahead, negative expired);
\* a map of valid dates is never rejected; the value is computed before the
\* prompt is rendered and is the value the prompt carries.
C9_DaysToExpiry ==
    \A s \in Slots :
       /\ DaysComputed(req[s])
          => /\ DOMAIN req[s].days_to_expiry = DOMAIN ExpiryDatesOf(req[s].body)
             /\ \A k \in DOMAIN req[s].days_to_expiry :
                   req[s].days_to_expiry[k] =
                     ExpectedDays(req[s].today, ExpiryDatesOf(req[s].body)[k].text)
             /\ req[s].pc = "llm" => req[s].prompt = NoPrompt
             /\ req[s].pc = "done"
                  => req[s].prompt.days_to_expiry = req[s].days_to_expiry
       /\ (PastTry(req[s])
             /\ \A k \in DOMAIN ExpiryDatesOf(req[s].body) :
                   AcceptedDate(ExpiryDatesOf(req[s].body)[k]))
          => DaysComputed(req[s])

C9_Witness ==
    \E s \in Slots :
       /\ req[s].handler = "generate_meal_plan"
       /\ req[s].pc = "done"
       /\ req[s].today = Today0
       /\ DOMAIN req[s].days_to_expiry = {"Milk", "Eggs"}
       /\ ExpiryDatesOf(req[s].body)["Milk"] = Str(TxtIsoMarch1)
       /\ ExpiryDatesOf(req[s].body)["Eggs"] = Str(TxtShortFeb26)
       /\ req[s].prompt.days_to_expiry["Milk"] = 3
       /\ req[s].prompt.days_to_expiry["Eggs"] = 0 - 1

\* ---- C10 ----
\* C10: across requests in sequence or in flight together, nothing of one
\* request reaches another: two requests with the same inputs, the same date
\* of handling and the same adapter results have the same prompt and the same
\* response; and the expiry days are computed from the date of each request,
\* so the same expiry map handled n days later gives values smaller by n.
C10_NoStateAcrossRequests ==
    \A a \in Slots : \A b \in Slots :
       /\ (/\ req[a].pc = "done" /\ req[b].pc = "done"
           /\ req[a].handler = req[b].handler
           /\ req[a].files = req[b].files
           /\ req[a].body = req[b].body
           /\ req[a].today = req[b].today
           /\ req[a].ocr_raised = req[b].ocr_raised
           /\ req[a].extracted_text = req[b].extracted_text
           /\ req[a].llm_calls = req[b].llm_calls
           /\ req[a].llm_raised = req[b].llm_raised
           /\ req[a].result = req[b].result)
          => /\ req[a].prompt = req[b].prompt
             /\ req[a].response = req[b].response
       /\ (/\ DaysComputed(req[a]) /\ DaysComputed(req[b])
           /\ ExpiryDatesOf(req[a].body) = ExpiryDatesOf(req[b].body))
          => \A k \in DOMAIN req[a].days_to_expiry :
                req[a].days_to_expiry[k] + req[a].today
                  = req[b].days_to_expiry[k] + req[b].today
       /\ req[a].today <= clock

C10_Witness ==
    \E a \in Slots : \E b \in Slots :
       /\ DaysComputed(req[a]) /\ DaysComputed(req[b])
       /\ req[a].pc = "llm" /\ req[b].pc = "done"
       /\ DOMAIN ExpiryDatesOf(req[a].body) = {"Milk"}
       /\ ExpiryDatesOf(req[a].body) = ExpiryDatesOf(req[b].body)
       /\ req[a].today = req[b].today + 2
       /\ req[a].days_to_expiry["Milk"] = req[b].days_to_expiry["Milk"] - 2

====
